---- MODULE Spec2Model ----
(***************************************************************************)
(* Symbolic memory model of ir/memory.cpp (Pointer and Memory).            *)
(*                                                                         *)
(* Bit-vector terms are modelled by their values under one interpretation  *)
(* of the free symbols: a bit-vector of width w is a natural below 2^w, a  *)
(* boolean term is a BOOLEAN, the array blocks_val is a function from      *)
(* pointer values to 9-bit values, and the uninterpreted functions         *)
(* blks_addr / blks_size are the functions held in the variable uf.        *)
(***************************************************************************)
EXTENDS Integers, Sequences, FiniteSets

\* ------------------------------------------------------------------------
\* Bit layout (memory.h sets production widths; the model scales them down)
\* ------------------------------------------------------------------------
bits_for_offset == 4
bits_for_local_bid == 2
bits_for_nonlocal_bid == 2
bits_size_t == 5

\* width of the value part of a heap entry; the entry is val + poison bit
ByteBits == 8
\* memset / memcpy unroll constant lengths up to this many bytes
UnrollMax == 4

\* longest history of operations explored on one heap
MaxOps == 2
\* longest run of allocations explored
MaxAllocs == 4
\* most memset / memcpy calls explored on one heap
MaxBulk == 1

VARIABLES
  mem,      \* the current Memory object: blocks_val, last_bid, last_idx_ptr
  m_then,   \* copy of the heap executing the 'then' branch
  m_els,    \* copy of the heap executing the 'else' branch
  phase,    \* "seq": straight-line code, "branch": between fork and join
  uf,       \* interpretation of blks_size / blks_addr (local and non-local)
  pre,      \* State: preconditions added so far (truth values)
  ub,       \* State: UB conditions added so far (truth values)
  last,     \* the last operation: its inputs, result and UB conditions
  prev,     \* the operation before the last one
  old_mem,  \* the Memory object the last operation started from
  allocs,   \* pointers returned by the alloc calls so far, in call order
  nops      \* number of operations performed

vars ==
  <<mem, m_then, m_els, phase, uf, pre, ub, last, prev, old_mem, allocs, nops>>

\* ------------------------------------------------------------------------
\* smt::expr bit-vector operations, on values
\* ------------------------------------------------------------------------
Pow2(n) == 2^n

Max(a, b) == IF a >= b THEN a ELSE b

\* expr::mkUInt(n, bits)
mkUInt(n, bits) == n % Pow2(bits)

\* a.concat(b) where b has width wb
concat(a, b, wb) == a * Pow2(wb) + b

\* x.extract(high, low)
extract(x, high, low) == (x \div Pow2(low)) % Pow2(high - low + 1)

\* x.zextOrTrunc(to)
zextOrTrunc(x, to) == x % Pow2(to)

\* x.sextOrTrunc(to) for x of width from
sextOrTrunc(x, from, to) ==
  IF to <= from THEN x % Pow2(to)
  ELSE IF x >= Pow2(from - 1) THEN x + Pow2(to) - Pow2(from)
  ELSE x

\* a.add_no_uoverflow(b) at width w
add_no_uoverflow(a, b, w) == a + b < Pow2(w)

\* (a + b) at width w
bvadd(a, b, w) == (a + b) % Pow2(w)

\* (a - b) at width w
bvsub(a, b, w) == (a + Pow2(w) - b) % Pow2(w)

\* util::divide_up
divide_up(n, amount) == (n + amount - 1) \div amount

\* util::ilog2 for the alignments used (powers of two)
ilog2(n) ==
  IF n >= 8 THEN 3 ELSE IF n >= 4 THEN 2 ELSE IF n >= 2 THEN 1 ELSE 0

\* ------------------------------------------------------------------------
\* Pointer
\* ------------------------------------------------------------------------
bits_for_bids == bits_for_local_bid + bits_for_nonlocal_bid

total_bits == bits_for_bids + bits_for_offset

PtrVals == 0 .. (Pow2(total_bits) - 1)

get_bid(p) == extract(p, bits_for_bids - 1, 0)

get_local_bid(p) == extract(p, bits_for_bids - 1, bits_for_nonlocal_bid)

get_nonlocal_bid(p) == extract(p, bits_for_nonlocal_bid - 1, 0)

get_offset(p) == extract(p, bits_for_bids + bits_for_offset - 1, bits_for_bids)

is_local(p) == get_local_bid(p) # 0 /\ get_nonlocal_bid(p) = 0

\* Pointer(m, bid, local)
PointerBid(bid, local) ==
  LET bid_expr == IF local
                  THEN mkUInt(bid * Pow2(bits_for_nonlocal_bid), bits_for_bids)
                  ELSE mkUInt(bid, bits_for_bids)
  IN  concat(mkUInt(0, bits_for_offset), bid_expr, bits_for_bids)

\* Pointer(m, offset, local_bid, nonlocal_bid)
PointerFields(offset, local_bid, nonlocal_bid) ==
  concat(concat(offset, local_bid, bits_for_local_bid),
         nonlocal_bid, bits_for_nonlocal_bid)

\* Pointer::get_address under the interpretation u
get_address(u, p) ==
  LET offset == sextOrTrunc(get_offset(p), bits_for_offset, bits_size_t)
  IN  bvadd(offset,
            IF is_local(p) THEN u.addr_local[get_local_bid(p)]
                           ELSE u.addr_nonlocal[get_nonlocal_bid(p)],
            bits_size_t)

\* Pointer::block_size under the interpretation u: a leading zero bit
\* concatenated with a value of bits_size_t - 1 bits
block_size(u, p) ==
  concat(mkUInt(0, 1),
         IF is_local(p) THEN u.size_local[get_local_bid(p)]
                        ELSE u.size_nonlocal[get_nonlocal_bid(p)],
         bits_size_t - 1)

\* Pointer::operator+(const expr &bytes)
PtrAdd(p, bytes) ==
  LET off == zextOrTrunc(
               bvadd(sextOrTrunc(get_offset(p), bits_for_offset, bits_size_t),
                     zextOrTrunc(bytes, bits_size_t), bits_size_t),
               bits_for_offset)
  IN  concat(off, get_bid(p), bits_for_bids)

\* Pointer::operator+(unsigned bytes)
PtrAddU(p, bytes) == PtrAdd(p, mkUInt(bytes, bits_for_offset))

\* Pointer::operator==
PtrEq(p, q) == get_bid(p) = get_bid(q) /\ get_offset(p) = get_offset(q)

\* Pointer::uge(rhs).both() and Pointer::ult(rhs).both()
PtrUgeBoth(p, q) == get_bid(p) = get_bid(q) /\ get_offset(p) >= get_offset(q)

PtrUltBoth(p, q) == get_bid(p) = get_bid(q) /\ get_offset(p) < get_offset(q)

\* Pointer::is_aligned
is_aligned(u, p, align) ==
  LET bits == ilog2(align)
  IN  IF bits # 0 THEN extract(get_address(u, p), bits - 1, 0) = 0 ELSE TRUE

is_dereferenceable_wrapping(u, p, bytes0, align) ==
  LET block_sz == block_size(u, p)
      offset   == sextOrTrunc(get_offset(p), bits_for_offset, bits_size_t)
      bytes    == zextOrTrunc(bytes0, bits_size_t)
      cond     == /\ bvadd(offset, bytes, bits_size_t) <= block_sz
                  /\ is_aligned(u, p, align)
  IN  (bytes > 0) => cond

\* the condition Pointer::is_dereferenceable(bytes0, align) hands to addUB
is_dereferenceable(u, p, bytes0, align) ==
  LET block_sz == block_size(u, p)
      offset   == sextOrTrunc(get_offset(p), bits_for_offset, bits_size_t)
      bytes    == zextOrTrunc(bytes0, bits_size_t)
      cond     == /\ bvadd(offset, bytes, bits_size_t) <= block_sz
                  /\ add_no_uoverflow(offset, bytes, bits_size_t)
                  /\ is_aligned(u, p, align)
  IN  (bytes > 0) => cond

\* Pointer::is_dereferenceable(unsigned bytes, align)
is_dereferenceableU(u, p, bytes, align) ==
  is_dereferenceable(u, p, mkUInt(bytes, bits_for_offset), align)

disjoint_strict(begin1, len1, begin2, len2) ==
  \/ begin1 > bvadd(begin2, len2, bits_size_t)
  \/ begin2 > bvadd(begin1, len1, bits_size_t)

\* static disjoint(begin1, len1, begin2, len2), at width bits_size_t
disjoint(begin1, len1, begin2, len2) ==
  \/ begin1 >= bvadd(begin2, len2, bits_size_t)
  \/ begin2 >= bvadd(begin1, len1, bits_size_t)

\* the condition Pointer::is_disjoint(len1, ptr2, len2) hands to addUB
is_disjoint(p, len1, ptr2, len2) ==
  \/ get_bid(p) # get_bid(ptr2)
  \/ disjoint(sextOrTrunc(get_offset(p), bits_for_offset, bits_size_t),
              zextOrTrunc(len1, bits_size_t),
              sextOrTrunc(get_offset(ptr2), bits_for_offset, bits_size_t),
              zextOrTrunc(len2, bits_size_t))

\* ------------------------------------------------------------------------
\* Memory
\* ------------------------------------------------------------------------

\* the free array "blks_val" of mk_val_array: contents of non-local memory
\* before the function runs, one value per multiplier
BaseArray(s) == [p \in PtrVals |-> (p * s + 3) % Pow2(ByteBits + 1)]

\* Memory::Memory: every local address starts as the all-zero entry
MemoryInit(base) ==
  [blocks_val   |-> [idx \in PtrVals |->
                       IF is_local(idx) THEN mkUInt(0, ByteBits + 1)
                                        ELSE base[idx]],
   last_bid     |-> 0,
   last_idx_ptr |-> 0]

\* A value stored or loaded can be wider than the integers at hand, so a
\* bit-vector of a type is kept as its bytes, least significant first:
\* BV(n, bits) is the bit-vector of the given width with the value n
BV(n, bits) ==
  [i \in 1 .. divide_up(bits, ByteBits) |->
     (n \div Pow2((i - 1) * ByteBits)) % Pow2(ByteBits)]

\* x.trunc(bits) for x of at least that many bits
trunc(x, bits) ==
  [i \in 1 .. divide_up(bits, ByteBits) |->
     IF i * ByteBits <= bits THEN x[i]
     ELSE x[i] % Pow2(bits - (i - 1) * ByteBits)]

\* x.zext(amount) up to a whole number of bytes: the added bits are zero
zext(x, bytes) == [i \in 1 .. bytes |-> IF i <= Len(x) THEN x[i] ELSE 0]

\* x.extract((i + 1) * 8 - 1, i * 8)
extract_byte(x, i) == x[i + 1]

\* v.concat(x) for a byte v: v becomes the most significant byte
concat_byte(v, x) == Append(x, v)

\* Type::toBV / Type::fromBV of an integer type: the value on the type's bits
toBV(v, bits) == [value |-> trunc(v.value, bits), non_poison |-> v.non_poison]

fromBV(v, bits) == [value |-> trunc(v.value, bits), non_poison |-> v.non_poison]

BoolBit(b) == IF b THEN 1 ELSE 0

StoreDataBigEndian(value, i, bytes) == extract_byte(value, bytes - 1 - i)

\* the byte of the value the loop of Memory::store writes in round i
StoreData(value, i, bytes) == extract_byte(value, i)

StoreAddrNext(ptr, i) == PtrAddU(ptr, i + 1)

\* the address the loop of Memory::store writes byte i to
StoreAddr(ptr, i) == PtrAddU(ptr, i)

\* the loop of Memory::store, from byte i on
RECURSIVE StoreLoop(_, _, _, _, _, _)
StoreLoop(bv, ptr, value, non_poison, i, bytes) ==
  IF i >= bytes THEN bv
  ELSE LET data == StoreData(value, i, bytes)
           p    == StoreAddr(ptr, i)
       IN  StoreLoop([bv EXCEPT ![p] = concat(BoolBit(non_poison), data, ByteBits)],
                     ptr, value, non_poison, i + 1, bytes)

\* Memory::store(p, v, type, align) for a type of the given number of bits
store(m, u, p, v, bits, align) ==
  LET val   == toBV(v, bits)
      bytes == divide_up(bits, ByteBits)
      value == zext(val.value, bytes)
  IN  [mem |-> [m EXCEPT !.blocks_val =
                   StoreLoop(m.blocks_val, p, value, val.non_poison, 0, bytes)],
       ub  |-> <<is_dereferenceableU(u, p, bytes, align)>>]

\* how Memory::load folds the flag of one more byte into the result's flag
LoadFlag(p, non_poison) == p \/ non_poison

LoadConcatLow(v, value) == <<v>> \o value

\* how Memory::load joins one more byte to the value read so far
LoadConcat(v, value) == concat_byte(v, value)

\* the loop of Memory::load, from byte i on; val is the value read so far
RECURSIVE LoadLoop(_, _, _, _, _)
LoadLoop(bv, ptr, val, i, bytes) ==
  IF i >= bytes THEN val
  ELSE LET pair == bv[PtrAddU(ptr, i)]
           v    == extract(pair, ByteBits - 1, 0)
           p    == extract(pair, ByteBits, ByteBits) = 1
       IN  LoadLoop(bv, ptr,
                    IF i = 0
                    THEN [value |-> <<v>>, non_poison |-> p]
                    ELSE [value      |-> LoadConcat(v, val.value),
                          non_poison |-> LoadFlag(p, val.non_poison)],
                    i + 1, bytes)

\* Memory::load(p, type, align)
load(m, u, p, bits, align) ==
  LET bytes == divide_up(bits, ByteBits)
      val   == LoadLoop(m.blocks_val, p, [value |-> <<>>, non_poison |-> FALSE],
                        0, bytes)
  IN  [val |-> fromBV([value      |-> trunc(val.value, bits),
                       non_poison |-> val.non_poison], bits),
       ub  |-> <<is_dereferenceableU(u, p, bytes, align)>>]

\* the unrolled loop of Memory::memset, from byte i on
RECURSIVE MemsetLoop(_, _, _, _, _)
MemsetLoop(bv, ptr, store_val, i, n) ==
  IF i >= n THEN bv
  ELSE MemsetLoop([bv EXCEPT ![PtrAddU(ptr, i)] = store_val],
                  ptr, store_val, i + 1, n)

InRangeInclusive(idx, ptr, end) ==
  /\ PtrUgeBoth(idx, ptr)
  /\ get_bid(idx) = get_bid(end)
  /\ get_offset(idx) <= get_offset(end)

\* the range test both lambdas use, idx in [ptr, end), where end is
\* ptr + bytes
InRange(idx, ptr, end) == PtrUgeBoth(idx, ptr) /\ PtrUltBoth(idx, end)

\* Memory::memset(p, val, bytes, align); is_uint tells whether bytes is a
\* ground constant (bytes.isUInt(n))
memset(m, u, p, val, bytes, is_uint, align) ==
  LET store_val == concat(BoolBit(val.non_poison), val.value, ByteBits)
      cond      == <<is_dereferenceable(u, p, bytes, align)>>
      end       == PtrAdd(p, bytes)
  IN  IF is_uint /\ bytes <= UnrollMax
      THEN [mem |-> [m EXCEPT !.blocks_val =
                       MemsetLoop(m.blocks_val, p, store_val, 0, bytes)],
            ub  |-> cond]
      ELSE [mem |-> [m EXCEPT
                       !.blocks_val = [idx \in PtrVals |->
                                         IF InRange(idx, p, end)
                                         THEN store_val
                                         ELSE m.blocks_val[idx]],
                       !.last_idx_ptr = m.last_idx_ptr + 1],
            ub  |-> cond]

MemcpyCurVal(old_val, cur_val) == cur_val

\* the array the unrolled loop of Memory::memcpy reads from
MemcpyOldVal(old_val, cur_val) == old_val

\* the unrolled loop of Memory::memcpy, from byte i on
RECURSIVE MemcpyLoop(_, _, _, _, _, _)
MemcpyLoop(bv, old_val, dst, src, i, n) ==
  IF i >= n THEN bv
  ELSE LET src_i == PtrAddU(src, i)
           dst_i == PtrAddU(dst, i)
       IN  MemcpyLoop([bv EXCEPT ![dst_i] = MemcpyOldVal(old_val, bv)[src_i]],
                      old_val, dst, src, i + 1, n)

\* the UB conditions Memory::memcpy adds before it copies
MemcpyUB(u, dst, src, bytes, align_dst, align_src, move) ==
  <<is_dereferenceable(u, dst, bytes, align_dst),
    is_dereferenceable(u, src, bytes, align_src)>>
  \o (IF ~move THEN <<is_disjoint(src, bytes, dst, bytes)>> ELSE <<>>)

\* Memory::memcpy(d, s, bytes, align_dst, align_src, move)
memcpy(m, u, dst, src, bytes, is_uint, align_dst, align_src, move) ==
  LET cond == MemcpyUB(u, dst, src, bytes, align_dst, align_src, move)
      end  == PtrAdd(dst, bytes)
  IN  IF is_uint /\ bytes <= UnrollMax
      THEN [mem |-> [m EXCEPT !.blocks_val =
                       MemcpyLoop(m.blocks_val, m.blocks_val, dst, src, 0, bytes)],
            ub  |-> cond]
      ELSE [mem |-> [m EXCEPT
                       !.blocks_val = [dst_idx \in PtrVals |->
                          LET src_idx == PtrAdd(src,
                                bvsub(get_offset(dst_idx), get_offset(dst),
                                      bits_for_offset))
                          IN  IF InRange(dst_idx, dst, end)
                              THEN m.blocks_val[src_idx]
                              ELSE m.blocks_val[dst_idx]],
                       !.last_idx_ptr = m.last_idx_ptr + 1],
            ub  |-> cond]

alloc_postinc(m, u, bytes, align, local) ==
  LET bid  == m.last_bid + 1
      p    == PointerBid(m.last_bid, local)
      size == zextOrTrunc(bytes, bits_size_t)
  IN  [mem |-> [m EXCEPT !.last_bid = bid],
       pre |-> <<is_aligned(u, p, align), block_size(u, p) = size>>,
       ptr |-> p]

\* Memory::alloc(bytes, align, local)
alloc(m, u, bytes, align, local) ==
  LET bid  == m.last_bid + 1
      p    == PointerBid(bid, local)
      size == zextOrTrunc(bytes, bits_size_t)
  IN  [mem |-> [m EXCEPT !.last_bid = bid],
       pre |-> <<is_aligned(u, p, align), block_size(u, p) = size>>,
       ptr |-> p]

\* Memory::mkIf(cond, then, els)
mkIf(cond, then, els) ==
  [blocks_val   |-> IF cond THEN then.blocks_val ELSE els.blocks_val,
   last_bid     |-> Max(then.last_bid, els.last_bid),
   last_idx_ptr |-> Max(then.last_idx_ptr, els.last_idx_ptr)]

\* ------------------------------------------------------------------------
\* The program as a state machine
\* ------------------------------------------------------------------------

\* no branch copy exists outside a branch
NoMem == [blocks_val |-> <<>>, last_bid |-> 0, last_idx_ptr |-> 0]

NoVal == [value |-> <<>>, non_poison |-> FALSE]

NoOp ==
  [op |-> "init", p |-> 0, q |-> 0, n |-> 0, bits |-> 0, v |-> NoVal,
   is_uint |-> FALSE, move |-> FALSE, align |-> 1, res |-> NoVal,
   conds |-> <<>>]

\* an interpretation of the four uninterpreted functions: every local block
\* has size sl and base al, every non-local block size sn and base an
UF(sl, sn, al, an) ==
  [size_local    |-> [b \in 0 .. (Pow2(bits_for_local_bid) - 1) |-> sl],
   size_nonlocal |-> [b \in 0 .. (Pow2(bits_for_nonlocal_bid) - 1) |-> sn],
   addr_local    |-> [b \in 0 .. (Pow2(bits_for_local_bid) - 1) |-> al],
   addr_nonlocal |-> [b \in 0 .. (Pow2(bits_for_nonlocal_bid) - 1) |-> an]]

MaxOff == Pow2(bits_for_offset) - 1

MinNegOff == Pow2(bits_for_offset - 1)

MaxSize == Pow2(bits_size_t - 1) - 1

\* first local block, first non-local block, and a pointer with both fields set
LocalPtr(off) == PointerFields(off, 1, 0)

NonLocalPtr(off) == PointerFields(off, 0, 1)

UndefPtr(off) == PointerFields(off, 1, 1)

InitWith(ufs, bases) ==
  /\ uf \in ufs
  /\ \E s \in bases : mem = MemoryInit(BaseArray(s))
  /\ m_then = NoMem
  /\ m_els = NoMem
  /\ phase = "seq"
  /\ pre = <<>>
  /\ ub = <<>>
  /\ last = NoOp
  /\ prev = NoOp
  /\ old_mem = mem
  /\ allocs = <<>>
  /\ nops = 0

\* one more operation on the current heap
Step(r, rec) ==
  /\ phase = "seq"
  /\ nops < MaxOps
  /\ nops' = nops + 1
  /\ old_mem' = mem
  /\ mem' = r.mem
  /\ ub' = ub \o r.ub
  /\ last' = [rec EXCEPT !.conds = r.ub]
  /\ prev' = last
  /\ UNCHANGED <<m_then, m_els, phase, uf, pre, allocs>>

Store(p, v, bits, align) ==
  Step(store(mem, uf, p, v, bits, align),
       [NoOp EXCEPT !.op = "store", !.p = p, !.v = v, !.bits = bits,
                    !.align = align])

Load(p, bits, align) ==
  LET r == load(mem, uf, p, bits, align)
  IN  Step([mem |-> mem, ub |-> r.ub],
           [NoOp EXCEPT !.op = "load", !.p = p, !.bits = bits,
                        !.align = align, !.res = r.val])

Memset(p, v, bytes, is_uint, align) ==
  Step(memset(mem, uf, p, v, bytes, is_uint, align),
       [NoOp EXCEPT !.op = "memset", !.p = p, !.v = v, !.n = bytes,
                    !.is_uint = is_uint, !.align = align])

Memcpy(d, s, bytes, is_uint, align_dst, align_src, move) ==
  Step(memcpy(mem, uf, d, s, bytes, is_uint, align_dst, align_src, move),
       [NoOp EXCEPT !.op = "memcpy", !.p = d, !.q = s, !.n = bytes,
                    !.is_uint = is_uint, !.align = align_dst, !.move = move])

\* a direct call of Pointer::is_dereferenceable(bytes0, align)
IsDereferenceable(p, bytes0, align) ==
  Step([mem |-> mem, ub |-> <<is_dereferenceable(uf, p, bytes0, align)>>],
       [NoOp EXCEPT !.op = "deref", !.p = p, !.n = bytes0, !.align = align])

\* the record of an alloc call that returned ptr
AllocRec(ptr, bytes, align, local) ==
  [NoOp EXCEPT !.op = "alloc", !.p = ptr, !.n = bytes, !.align = align,
               !.move = local]

Alloc(bytes, align, local) ==
  LET r == alloc(mem, uf, bytes, align, local)
  IN  /\ phase = "seq"
      /\ Len(allocs) < MaxAllocs
      /\ old_mem' = mem
      /\ mem' = r.mem
      /\ pre' = pre \o r.pre
      /\ allocs' = Append(allocs, r.ptr)
      /\ last' = AllocRec(r.ptr, bytes, align, local)
      /\ prev' = last
      /\ UNCHANGED <<m_then, m_els, phase, uf, ub, nops>>

\* the heap is copied for the two successors of a conditional branch
Fork ==
  /\ phase = "seq"
  /\ nops < MaxOps
  /\ nops' = nops + 1
  /\ phase' = "branch"
  /\ m_then' = mem
  /\ m_els' = mem
  /\ last' = [NoOp EXCEPT !.op = "fork"]
  /\ prev' = last
  /\ UNCHANGED <<mem, uf, pre, ub, old_mem, allocs>>

\* Memory::alloc on the copy of one branch
AllocBranch(then, bytes, align, local) ==
  LET m == IF then THEN m_then ELSE m_els
      r == alloc(m, uf, bytes, align, local)
  IN  /\ phase = "branch"
      /\ Len(allocs) < MaxAllocs
      /\ m_then' = IF then THEN r.mem ELSE m_then
      /\ m_els' = IF then THEN m_els ELSE r.mem
      /\ pre' = pre \o r.pre
      /\ allocs' = Append(allocs, r.ptr)
      /\ last' = AllocRec(r.ptr, bytes, align, local)
      /\ prev' = last
      /\ UNCHANGED <<mem, phase, uf, ub, old_mem, nops>>

\* Memory::store on the copy of one branch
StoreBranch(then, p, v, bits, align) ==
  LET m == IF then THEN m_then ELSE m_els
      r == store(m, uf, p, v, bits, align)
  IN  /\ phase = "branch"
      /\ nops < MaxOps
      /\ nops' = nops + 1
      /\ m_then' = IF then THEN r.mem ELSE m_then
      /\ m_els' = IF then THEN m_els ELSE r.mem
      /\ ub' = ub \o r.ub
      /\ last' = [NoOp EXCEPT !.op = "store", !.p = p, !.v = v, !.bits = bits,
                              !.align = align, !.conds = r.ub]
      /\ prev' = last
      /\ UNCHANGED <<mem, phase, uf, pre, old_mem, allocs>>

\* the join point: Memory::mkIf of the two copies
Join(cond) ==
  /\ phase = "branch"
  /\ phase' = "seq"
  /\ old_mem' = mem
  /\ mem' = mkIf(cond, m_then, m_els)
  /\ m_then' = NoMem
  /\ m_els' = NoMem
  /\ last' = [NoOp EXCEPT !.op = "mkIf", !.move = cond]
  /\ prev' = last
  /\ UNCHANGED <<uf, pre, ub, allocs, nops>>

\* ------------------------------------------------------------------------
\* Pointer::is_dereferenceable on its own
\* ------------------------------------------------------------------------
DerefUFs ==
  { UF(sl, sn, al, 4) : sl \in {0, 3, MaxSize}, sn \in {0, 3, MaxSize},
                        al \in {0, 2} }

DerefOffs == {0, 1, 2, MinNegOff - 1, MinNegOff, MaxOff}

DerefPtrs ==
  {LocalPtr(o) : o \in DerefOffs} \cup {NonLocalPtr(o) : o \in DerefOffs}
    \cup {UndefPtr(o) : o \in DerefOffs}

DerefBytes == {0, 1, 2, 3, MaxSize, MaxSize + 1, 2 * MaxSize + 1}

Aligns == {1, 2, 4}

InitDeref == InitWith(DerefUFs, {37})

NextDeref ==
  \E p \in DerefPtrs, n \in DerefBytes, a \in Aligns :
    nops = 0 /\ IsDereferenceable(p, n, a)

SpecDeref == InitDeref /\ [][NextDeref]_vars

\* ------------------------------------------------------------------------
\* Straight-line code: alloc, store and load on one heap
\* ------------------------------------------------------------------------
HeapUFs == { UF(4, 4, 0, 4) }

\* pointers into the first local and the first non-local block, the last one
\* so close to the end of the offset field that multi-byte accesses wrap
HeapPtrs == {LocalPtr(0), LocalPtr(MaxOff), NonLocalPtr(0)}

\* <<bits of the type, value>>
TypedVals ==
  { <<12, 2748>>,       \* i12 0xABC
    <<16, 43707>>,      \* i16 0xAABB
    <<32, 16909060>> }  \* i32 0x01020304

LoadBits == {8, 12, 16, 32}

Init == InitWith(HeapUFs, {37})

NextAlloc == \E local \in BOOLEAN : Alloc(4, 4, local)

NextStore ==
  \E p \in HeapPtrs, tv \in TypedVals, np \in BOOLEAN :
    Store(p, [value |-> BV(tv[2], tv[1]), non_poison |-> np], tv[1], 1)

NextLoad == \E p \in HeapPtrs, bits \in LoadBits : Load(p, bits, 1)

Next ==
  /\ nops + Len(allocs) < MaxOps
  /\ (NextAlloc \/ NextStore \/ NextLoad)

Spec == Init /\ [][Next]_vars

\* ------------------------------------------------------------------------
\* memset and loads on one heap
\* ------------------------------------------------------------------------
BulkUFs == { UF(8, 8, 0, 2) }

SetPtrs == {LocalPtr(0), NonLocalPtr(MinNegOff - 1)}

SetVals ==
  { [value |-> 255, non_poison |-> TRUE], [value |-> 90, non_poison |-> FALSE] }

\* lengths on both sides of UnrollMax; the last one takes the range of the
\* second pointer of SetPtrs just past the end of the offset field
SetLens == {0, 3, 8, MinNegOff + 1}

InitSet == InitWith(BulkUFs, {37})

NextSetAlloc == Alloc(8, 1, TRUE)

NextMemset ==
  \E p \in SetPtrs, v \in SetVals, n \in SetLens, is_uint \in BOOLEAN :
    nops < MaxBulk /\ Memset(p, v, n, is_uint, 1)

NextSetLoad ==
  \E pb \in {<<LocalPtr(4), 32>>, <<NonLocalPtr(MinNegOff), 16>>} :
    Load(pb[1], pb[2], 1)

NextSet ==
  /\ nops + Len(allocs) < MaxOps
  /\ (NextSetAlloc \/ NextMemset \/ NextSetLoad)

SpecSet == InitSet /\ [][NextSet]_vars

\* ------------------------------------------------------------------------
\* memcpy on one heap
\* ------------------------------------------------------------------------

\* <<dst, src>>: disjoint or not depending on the length, overlapping with
\* dst ahead of src, in different blocks, the same negative offset, and a
\* destination range that runs over the end of the offset field
CpyPairs ==
  { <<NonLocalPtr(4), NonLocalPtr(0)>>,
    <<NonLocalPtr(1), NonLocalPtr(0)>>,
    <<LocalPtr(0), NonLocalPtr(0)>>,
    <<NonLocalPtr(MaxOff), NonLocalPtr(MaxOff)>>,
    <<NonLocalPtr(MaxOff), NonLocalPtr(0)>> }

\* <<bytes, bytes is a ground constant>>
CpyLens == { <<0, TRUE>>, <<4, TRUE>>, <<4, FALSE>>, <<5, TRUE>> }

InitCpy == InitWith(BulkUFs, {37, 111, 293})

NextCpy ==
  \E ds \in CpyPairs, n \in CpyLens, move \in BOOLEAN :
    nops < MaxBulk /\ Memcpy(ds[1], ds[2], n[1], n[2], 1, 1, move)

SpecCpy == InitCpy /\ [][NextCpy]_vars

\* ------------------------------------------------------------------------
\* runs of allocations, each one possibly followed by an access through the
\* pointer it returned
\* ------------------------------------------------------------------------
AllocUFs == { UF(8, 8, 0, 0) }

InitAlloc == InitWith(AllocUFs, {37})

NextAllocAny == \E local \in BOOLEAN : Alloc(8, 1, local)

NextAllocStore ==
  /\ last.op = "alloc"
  /\ Store(last.p, [value |-> BV(43707, 16), non_poison |-> TRUE], 16, 1)

NextAllocLoad == last.op = "alloc" /\ Load(last.p, 16, 1)

NextAllocMemset ==
  /\ last.op = "alloc"
  /\ nops < MaxBulk
  /\ Memset(last.p, [value |-> 255, non_poison |-> TRUE], 8, TRUE, 1)

NextAllocMemcpy ==
  /\ last.op = "alloc"
  /\ nops < MaxBulk
  /\ Memcpy(PtrAddU(last.p, 4), last.p, 4, FALSE, 1, 1, FALSE)

NextAllocs ==
  \/ NextAllocAny
  \/ NextAllocStore
  \/ NextAllocLoad
  \/ NextAllocMemset
  \/ NextAllocMemcpy

SpecAlloc == InitAlloc /\ [][NextAllocs]_vars

\* ------------------------------------------------------------------------
\* a function with conditional branches: the heap is copied at the branch,
\* each successor works on its copy, the copies are merged at the join
\* ------------------------------------------------------------------------
NextBranchAlloc ==
  \E then \in BOOLEAN, local \in BOOLEAN : AllocBranch(then, 8, 1, local)

NextBranchStore ==
  \E then \in BOOLEAN :
    StoreBranch(then, LocalPtr(0),
                [value |-> BV(43707, 16), non_poison |-> TRUE], 16, 1)

NextJoin == \E cond \in BOOLEAN : Join(cond)

NextBranch ==
  \/ NextAllocAny
  \/ Fork
  \/ NextBranchAlloc
  \/ NextBranchStore
  \/ NextJoin

SpecBranch == InitAlloc /\ [][NextBranch]_vars

\* the addresses a store of the type's bytes at p covers: same block, offset
\* at most bytes - 1 above p's, counted modulo the offset field
Covered(a, p, bytes) ==
  /\ get_bid(a) = get_bid(p)
  /\ (get_offset(a) + Pow2(bits_for_offset) - get_offset(p))
        % Pow2(bits_for_offset) < bytes

BytesOf(bits) == (bits + 7) \div 8

\* every address of the block a pointer p points into
BlockAddrs(p) ==
  { concat(o, get_bid(p), bits_for_bids) : o \in 0 .. MaxOff }

CoveredAddrs(p, bytes) == { a \in BlockAddrs(p) : Covered(a, p, bytes) }

\* f with its entries at the addresses of S replaced by those of g
RECURSIVE Patch(_, _, _)
Patch(f, g, S) ==
  IF S = {} THEN f
  ELSE LET a == CHOOSE x \in S : TRUE
       IN  Patch([f EXCEPT ![a] = g[a]], g, S \ {a})

\* the arrays f and g hold the same entry at every address outside S
SameOutside(f, g, S) == g = Patch(f, g, S)

\* C1: a load that directly follows a store through the same pointer and
\* type returns the stored value and the stored non_poison flag, for widths
\* that are no multiple of 8 and for accesses that wrap around the offset
\* field as well.
C1_LoadAfterStore ==
  (last.op = "load" /\ prev.op = "store" /\ prev.p = last.p
     /\ prev.bits = last.bits)
    => /\ last.res.value = prev.v.value
       /\ last.res.non_poison = prev.v.non_poison

C1_Witness ==
  /\ last.op = "load" /\ prev.op = "store"
  /\ prev.p = LocalPtr(MaxOff) /\ last.p = prev.p
  /\ prev.bits = 12 /\ last.bits = 12
  /\ prev.v.non_poison
  /\ last.res.value = BV(2748, 12)
  /\ last.res.non_poison

\* the non_poison flag of the heap entry at address a
EntryNonPoison(bv, a) == bv[a] \div Pow2(ByteBits) = 1

\* C2: a load from a local block (whose bytes are poisoned until a store of
\* a non-poison value writes them) returns a non-poison value only when every byte it reads is
\* non-poison; one poisoned byte (never written in a local block, or written
\* by a store of a poisoned value) makes the result poisoned.
C2_LoadPoison ==
  (last.op = "load" /\ is_local(last.p))
    => (last.res.non_poison
          <=> \A i \in 0 .. (BytesOf(last.bits) - 1) :
                EntryNonPoison(mem.blocks_val, PtrAddU(last.p, i)))

\* C3: a store leaves every entry outside the bytes it covers as it was, and
\* leaves last_bid and last_idx_ptr alone.
C3_StoreFrame ==
  last.op = "store"
    => /\ SameOutside(old_mem.blocks_val, mem.blocks_val,
                       CoveredAddrs(last.p, BytesOf(last.bits)))
       /\ mem.last_bid = old_mem.last_bid
       /\ mem.last_idx_ptr = old_mem.last_idx_ptr

C3_Witness ==
  /\ last.op = "store" /\ last.p = LocalPtr(MaxOff) /\ last.bits = 16
  /\ prev.op = "store" /\ prev.p = LocalPtr(0) /\ prev.bits = 32
  /\ prev.v.non_poison
  /\ mem.blocks_val[LocalPtr(MaxOff)] # old_mem.blocks_val[LocalPtr(MaxOff)]
  /\ mem.blocks_val[LocalPtr(0)] # old_mem.blocks_val[LocalPtr(0)]
  /\ mem.blocks_val[LocalPtr(1)] = old_mem.blocks_val[LocalPtr(1)]
  /\ mem.blocks_val[LocalPtr(1)] % Pow2(ByteBits) = 3

\* the i-th least significant byte of the number n
ByteOfNat(n, i) == (n \div (256 ^ i)) % 256

\* C4: after a store of v at p, the entry at p + i holds the i-th least
\* significant byte of v in its low 8 bits, and an 8-bit load at p + i
\* returns that byte; i16 0xAABB leaves 0xBB then 0xAA, and an 8-bit load at
\* the address of a stored non-poison i32 0x01020304 returns 0x04, non-poison.
C4_LittleEndian ==
  /\ last.op = "store"
       => \A i \in 0 .. (BytesOf(last.bits) - 1) :
            /\ mem.blocks_val[PtrAddU(last.p, i)] % Pow2(ByteBits)
                 = last.v.value[i + 1]
            /\ load(mem, uf, PtrAddU(last.p, i), 8, 1).val
                 = [value |-> <<last.v.value[i + 1]>>,
                    non_poison |-> last.v.non_poison]
  /\ \A tv \in TypedVals :
       (last.op = "store" /\ last.bits = tv[1] /\ last.v.value = BV(tv[2], tv[1]))
         => \A i \in 0 .. (BytesOf(tv[1]) - 1) :
              mem.blocks_val[PtrAddU(last.p, i)] % Pow2(ByteBits)
                = ByteOfNat(tv[2], i)
  /\ (last.op = "store" /\ last.bits = 16 /\ last.v.value = BV(43707, 16))
       => /\ mem.blocks_val[last.p] % Pow2(ByteBits) = 187
          /\ mem.blocks_val[PtrAddU(last.p, 1)] % Pow2(ByteBits) = 170
  /\ (last.op = "load" /\ last.bits = 8 /\ prev.op = "store"
        /\ prev.p = last.p /\ prev.bits = 32 /\ prev.v.non_poison
        /\ prev.v.value = BV(16909060, 32))
       => last.res = [value |-> <<4>>, non_poison |-> TRUE]

C4_Witness ==
  /\ last.op = "load" /\ last.bits = 8 /\ last.p = LocalPtr(0)
  /\ prev.op = "store" /\ prev.p = LocalPtr(0) /\ prev.bits = 32
  /\ prev.v = [value |-> BV(16909060, 32), non_poison |-> TRUE]
  /\ last.res = [value |-> <<4>>, non_poison |-> TRUE]

\* the offset of p read as a signed number of bits_for_offset bits
SignedOff(p) ==
  IF get_offset(p) >= MinNegOff THEN get_offset(p) - Pow2(bits_for_offset)
  ELSE get_offset(p)

\* the size the interpretation gives the block of p
SizeOf(p) ==
  IF is_local(p) THEN uf.size_local[get_local_bid(p)]
  ELSE uf.size_nonlocal[get_nonlocal_bid(p)]

\* the base address the interpretation gives the block of p
BaseOf(p) ==
  IF is_local(p) THEN uf.addr_local[get_local_bid(p)]
  ELSE uf.addr_nonlocal[get_nonlocal_bid(p)]

\* C7: the condition is_dereferenceable adds holds for 0 bytes; for n > 0
\* bytes it holds exactly when the sign-extended offset plus n stays within
\* the block's size without unsigned overflow and the address is aligned,
\* so it fails for every negative offset and every access past the size.
C7_Dereferenceable ==
  last.op = "deref"
    => LET cond  == last.conds[1]
           n     == last.n
           uoff  == IF SignedOff(last.p) < 0
                    THEN Pow2(bits_size_t) + SignedOff(last.p)
                    ELSE SignedOff(last.p)
           align == (uoff + BaseOf(last.p)) % last.align = 0
       IN  /\ Len(last.conds) = 1
           /\ ub = last.conds
           /\ n = 0 => cond
           /\ n > 0 => (cond <=> (uoff + n <= SizeOf(last.p) /\ align))
           /\ (n > 0 /\ SignedOff(last.p) < 0) => ~cond
           /\ (n > 0 /\ SignedOff(last.p) + n > SizeOf(last.p)) => ~cond

C7_Witness ==
  /\ last.op = "deref" /\ last.n = 1 /\ last.align = 2
  /\ last.p = LocalPtr(2) /\ SizeOf(last.p) = 3 /\ BaseOf(last.p) = 2
  /\ last.conds = <<TRUE>>

\* the range [p.off, p.off + bytes) fits the offset field
NoOffsetOverflow(p, bytes) == get_offset(p) + bytes < Pow2(bits_for_offset)

\* the heap entry memset writes for the value v
SetEntry(v) == BoolBit(v.non_poison) * Pow2(ByteBits) + v.value

\* C9: a memset whose range does not overflow the offset field writes
\* (non_poison || value) to every address of the range and nothing else, the
\* other path (unrolled for a constant length up to 4, lambda otherwise)
\* produces the same array, a length of 0 changes nothing, and a 32-bit load
\* at offset 4 after a memset of non-poison 0xFF over 8 bytes from offset 0
\* returns 0xFFFFFFFF, non-poison.
C9_Memset ==
  /\ (last.op = "memset" /\ NoOffsetOverflow(last.p, last.n))
       => /\ \A a \in BlockAddrs(last.p) :
               (/\ get_offset(a) >= get_offset(last.p)
                /\ get_offset(a) < get_offset(last.p) + last.n)
                 => mem.blocks_val[a] = SetEntry(last.v)
          /\ SameOutside(old_mem.blocks_val, mem.blocks_val,
                         CoveredAddrs(last.p, last.n))
          /\ mem.blocks_val =
               memset(old_mem, uf, last.p, last.v, last.n, ~last.is_uint,
                      last.align).mem.blocks_val
          /\ last.n = 0 => mem.blocks_val = old_mem.blocks_val
  /\ (/\ last.op = "load" /\ last.p = LocalPtr(4) /\ last.bits = 32
      /\ prev.op = "memset" /\ prev.p = LocalPtr(0) /\ prev.n = 8
      /\ prev.v = [value |-> 255, non_poison |-> TRUE])
       => last.res = [value |-> <<255, 255, 255, 255>>, non_poison |-> TRUE]

C9_Witness ==
  /\ last.op = "load" /\ last.p = LocalPtr(4) /\ last.bits = 32
  /\ prev.op = "memset" /\ prev.p = LocalPtr(0) /\ prev.n = 8
  /\ prev.v = [value |-> 255, non_poison |-> TRUE]
  /\ last.res = [value |-> <<255, 255, 255, 255>>, non_poison |-> TRUE]

\* sext(off) + bytes does not overflow the bits_size_t bits of an address
NoAddrOverflow(p, bytes) ==
  add_no_uoverflow(sextOrTrunc(get_offset(p), bits_for_offset, bits_size_t),
                   bytes, bits_size_t)

\* the intervals [b1, b1 + len) and [b2, b2 + len) of numbers share a point
Overlap(b1, b2, len) == len > 0 /\ b1 < b2 + len /\ b2 < b1 + len

\* what C5 says the disjointness condition of the last memcpy is
DisjointExpected ==
  \/ get_bid(last.p) # get_bid(last.q)
  \/ ~Overlap(sextOrTrunc(get_offset(last.q), bits_for_offset, bits_size_t),
              sextOrTrunc(get_offset(last.p), bits_for_offset, bits_size_t),
              last.n)

\* C5 as stated: memcpy adds a disjointness condition exactly when move is
\* false, and the condition is true iff the block ids differ or the byte
\* intervals of source and destination do not overlap.
C5_Original ==
  last.op = "memcpy"
    => /\ Len(last.conds) = IF last.move THEN 2 ELSE 3
       /\ ~last.move => (last.conds[3] <=> DisjointExpected)

\* C5, amended: the same, for source and destination ranges whose end
\* sext(off) + L does not overflow the address width (the caller's obligation
\* stated above Pointer::is_disjoint); with dst = src + 4 in one block the
\* condition is true for L = 4 and false for L = 5.
C5_Disjoint ==
  last.op = "memcpy"
    => /\ Len(last.conds) = IF last.move THEN 2 ELSE 3
       /\ (~last.move /\ NoAddrOverflow(last.p, last.n)
             /\ NoAddrOverflow(last.q, last.n))
            => (last.conds[3] <=> DisjointExpected)
       /\ (~last.move /\ last.p = PtrAddU(last.q, 4) /\ get_offset(last.q) = 0)
            => (last.conds[3] <=> last.n <= 4)

C5_Witness ==
  /\ last.op = "memcpy" /\ ~last.move
  /\ last.p = NonLocalPtr(4) /\ last.q = NonLocalPtr(0) /\ last.n = 5
  /\ Len(last.conds) = 3 /\ last.conds[3] = FALSE

\* the last memcpy took the unrolled path
Unrolled == last.is_uint /\ last.n <= UnrollMax

\* every destination byte holds what the source byte held before the call,
\* and nothing outside the destination range changed
CopiedFromOld ==
  /\ \A i \in 0 .. (last.n - 1) :
       mem.blocks_val[PtrAdd(last.p, i)] = old_mem.blocks_val[PtrAdd(last.q, i)]
  /\ SameOutside(old_mem.blocks_val, mem.blocks_val,
                 CoveredAddrs(last.p, last.n))

\* C6 as stated: after any memcpy, on either path, the destination bytes are
\* the source bytes of the heap before the call.
C6_Original == last.op = "memcpy" => CopiedFromOld

\* C6, amended: the same on the unrolled path for every destination, and on
\* the lambda path for destinations with dst.off + L below 2^bits_for_offset.
C6_PreUpdateHeap ==
  (last.op = "memcpy" /\ (Unrolled \/ NoOffsetOverflow(last.p, last.n)))
    => CopiedFromOld

\* overlapping ranges, dst one byte ahead of src, on the unrolled path
C6_Witness ==
  /\ last.op = "memcpy" /\ last.move /\ Unrolled /\ last.n = 4
  /\ last.p = NonLocalPtr(1) /\ last.q = NonLocalPtr(0)
  /\ old_mem.blocks_val[NonLocalPtr(0)] # old_mem.blocks_val[NonLocalPtr(1)]
  /\ mem.blocks_val[NonLocalPtr(2)] = old_mem.blocks_val[NonLocalPtr(1)]
  /\ mem.blocks_val[NonLocalPtr(2)] # mem.blocks_val[NonLocalPtr(1)]

Min(a, b) == IF a <= b THEN a ELSE b

\* every returned pointer is non-null and has offset 0
AllocsWellFormed ==
  \A i \in 1 .. Len(allocs) : allocs[i] # 0 /\ get_offset(allocs[i]) = 0

\* pointers returned by different calls are unequal: their bid fields differ
AllocsDistinct ==
  \A i, j \in 1 .. Len(allocs) :
    i # j => (~PtrEq(allocs[i], allocs[j])
              /\ get_bid(allocs[i]) # get_bid(allocs[j]))

\* every alloc call incremented last_bid by one
AllocsCounted ==
  /\ mem.last_bid = Len(allocs)
  /\ last.op = "alloc" => mem.last_bid = old_mem.last_bid + 1

\* C8 as stated: in any run of alloc calls on one heap, each call increments
\* last_bid and returns a non-null pointer with offset 0, and the pointers of
\* different calls are unequal.
C8_Original == AllocsCounted /\ AllocsWellFormed /\ AllocsDistinct

\* C8, amended: the same for runs of fewer than 2^bits_for_local_bid and
\* fewer than 2^bits_for_nonlocal_bid calls; last_bid is incremented by one
\* in every run.
C8_SequentialAlloc ==
  /\ AllocsCounted
  /\ Len(allocs) < Min(Pow2(bits_for_local_bid), Pow2(bits_for_nonlocal_bid))
       => (AllocsWellFormed /\ AllocsDistinct)

C8_Witness ==
  /\ Len(allocs) = 3 /\ nops = 2 /\ mem.last_idx_ptr = 1
  /\ is_local(allocs[1]) /\ ~is_local(allocs[2]) /\ is_local(allocs[3])
  /\ AllocsWellFormed /\ AllocsDistinct
  /\ mem.last_bid = 3

\* C10: no two alloc calls of one function return the same block id, also
\* when they run on the two copies of a heap made for a branch or after the
\* copies are merged.
C10_FreshAcrossBranches ==
  \A i, j \in 1 .. Len(allocs) :
    i # j => get_bid(allocs[i]) # get_bid(allocs[j])

====
